---------------------------- MODULE Spec2Model ----------------------------
(***************************************************************************)
(* Model of lvdm/data/webvid.py: the WebVid dataset and the retry loop of  *)
(* WebVid.__getitem__.                                                     *)
(*                                                                         *)
(* The metadata table and the video files behind it are fixed at           *)
(* construction.  A file is described by what the decoder reports for it:  *)
(* whether VideoReader opens it, len(video_reader), get_avg_fps() and      *)
(* whether get_batch succeeds on in-range indices.  Average fps values are *)
(* integers here, so int(x) and // are exact integer divisions.            *)
(*                                                                         *)
(* None is modelled by 0 for fixed_fps and fps_max (real values are > 0).  *)
(***************************************************************************)
EXTENDS Integers, Sequences, FiniteSets, TLC

\* ------------------------------------------------------------------ bounds
MaxRows == 2        \* rows of the metadata table
MaxCalls == 2       \* sequential __getitem__ calls in the multi-call scenarios
MaxAttempts == 3    \* attempts of one call whose rows are recorded
MaxCarried == 8     \* largest frame_stride an attempt is started with
MaxThreads == 2     \* threads that call __getitem__ concurrently
MaxStride == 2      \* largest configured frame_stride
VideoLength == 2    \* the configured video_length
MaxFrames == 5      \* frame count of the long files
MaxFps == 4         \* average fps of the fast files

None == 0

Max(a, b) == IF a >= b THEN a ELSE b

\* ------------------------------------------------------------------- state
VARIABLES
    cfg,                 \* constructor arguments kept on self
    videos,              \* per metadata row: what the decoder reports
    fps_stat, fs_stat,   \* self.fps_stat, self.fs_stat
    pc,                  \* position of the caller in __getitem__
    index, frame_stride, \* locals of __getitem__ live across iterations
    row, fps_ori, frame_num, required_frame_num, start_idx, frame_indices,
    shape_ok,            \* (frames.shape[2], frames.shape[3]) == resolution
    data,                \* <<the returned dict>>, <<>> while none is returned
    req,                 \* the index argument of the current call
    stride0,             \* the stride selected at the top of the call
    visited,             \* rows read by the first MaxAttempts attempts of
                         \* the current call
    last,                \* how the last attempt ended
    stride_in,           \* frame_stride at the start of the last attempt
    stride_chk,          \* the stride of the last required-span check
    fellback,            \* the last attempt took the fallback stride
    calls_left,          \* calls the caller still makes
    prev,                \* <<Summary of the last call that returned and was
                         \* followed by another call>>, else <<>>
    nreturned,           \* samples returned so far by all calls
    threads              \* per thread calling concurrently: where it is in
                         \* lines 229-230 and the locals it holds there

locals == <<row, fps_ori, frame_num, required_frame_num, start_idx,
            frame_indices>>
notes == <<stride_in, stride_chk, fellback>>
vars == <<cfg, videos, fps_stat, fs_stat, pc, index, frame_stride,
          row, fps_ori, frame_num, required_frame_num, start_idx,
          frame_indices, shape_ok, data, req, stride0, visited, last,
          stride_in, stride_chk, fellback, calls_left, prev, nreturned,
          threads>>

\* ----------------------------------------------------------- configuration
\* __init__ (lines 44-55): the arguments __getitem__ reads.
Configs ==
    [ video_length : {VideoLength},
      frame_stride : 1..MaxStride,
      frame_stride_min : {1},
      random_fs : BOOLEAN,
      fixed_fps : {None, 2},
      fps_max : {None, 2},
      has_resolution : BOOLEAN ]

\* What the decoder reports for the file of one row: VideoReader(path) opens
\* it or raises, len(video_reader), get_avg_fps(), and whether get_batch
\* succeeds on indices that are inside the file.
BadFile == [opens |-> FALSE, frame_num |-> 0, fps |-> 0, decode_ok |-> FALSE]

File(n, f, ok) == [opens |-> TRUE, frame_num |-> n, fps |-> f, decode_ok |-> ok]

Files ==
    { BadFile,
      File(VideoLength - 1, MaxFps, TRUE),
      File(VideoLength, MaxFps, TRUE),
      File(MaxFrames, MaxFps, TRUE),
      File(MaxFrames, MaxFps, FALSE),
      File(MaxFrames, 1, TRUE) }

Tables == [1..MaxRows -> Files]

\* The files of the multi-call scenarios.
FewFiles ==
    { File(VideoLength, MaxFps, TRUE),
      File(MaxFrames, MaxFps, FALSE),
      File(MaxFrames, 1, TRUE) }

FewTables == [1..MaxRows -> FewFiles]

\* Files whose average fps the target fps of Configs does not divide.
OddFiles ==
    { File(MaxFrames, MaxFps - 1, TRUE),
      File(MaxFrames, MaxFps - 1, FALSE) }

OddTables == [1..MaxRows -> OddFiles]

\* len(self.metadata)
RowCount == Len(videos)

\* ----------------------------------------------------------------- helpers
\* Faulty variant: the stride is drawn at random although random_fs is off.
StrideChoicesAlwaysRandom == cfg.frame_stride_min .. cfg.frame_stride

\* lines 99-103: the strides the top of __getitem__ can select
StrideChoices ==
    IF cfg.random_fs
    THEN cfg.frame_stride_min .. cfg.frame_stride
    ELSE {cfg.frame_stride}

\* Faulty variant: an index past the table is clamped to the last row, not wrapped.
WrapIndexClamped(i) == IF i >= RowCount THEN RowCount - 1 ELSE i

\* line 108: index = index % len(self.metadata)
WrapIndex(i) == i % RowCount

\* round(n / d) for n >= 0, d > 0, halves to the even neighbour
RoundHalfEven(n, d) ==
    LET q == n \div d
        r == n % d
    IN  IF 2 * r < d THEN q
        ELSE IF 2 * r > d THEN q + 1
        ELSE IF q % 2 = 0 THEN q ELSE q + 1

\* Faulty variant: the rescaled stride is rounded, not truncated.
RescaleStrideRounded(fs, fps) ==
    IF cfg.fixed_fps # None THEN RoundHalfEven(fs * fps, cfg.fixed_fps) ELSE fs

\* lines 136-138: int(frame_stride * (1.0 * fps_ori / self.fixed_fps))
RescaleStride(fs, fps) ==
    IF cfg.fixed_fps # None THEN (fs * fps) \div cfg.fixed_fps ELSE fs

\* Faulty variant: the clamp to a minimum of 1 is missing.
ClampStrideMissing(fs) == fs

\* line 141: max(frame_stride, 1)
ClampStride(fs) == Max(fs, 1)

\* lines 144, 153-154: frame_stride * (self.video_length - 1) + 1
RequiredFrameNum(fs) == fs * (cfg.video_length - 1) + 1

\* Faulty variant: the factor 0.5 is missing.
DropForFixedFpsNoHalf(fn, rq) == cfg.fixed_fps # None /\ fn < rq

\* line 148: self.fixed_fps is not None and frame_num < required_frame_num * 0.5
DropForFixedFps(fn, rq) == cfg.fixed_fps # None /\ 2 * fn < rq

\* Faulty variant: the quotient is rounded up instead of down.
FallbackStrideRoundedUp(fn) == fn \div cfg.video_length + 1

\* Faulty variant: the frame count is divided by the number of gaps, not of frames.
FallbackStrideGaps(fn) == fn \div (cfg.video_length - 1)

\* line 152: frame_num // self.video_length
FallbackStride(fn) == fn \div cfg.video_length

\* Faulty variant: the start offset may lie one past the slack.
StartChoicesPastSlack(random_range) ==
    IF random_range > 0 THEN 0 .. random_range + 1 ELSE {0}

\* lines 157-159: random.randint(0, random_range) if random_range > 0 else 0
StartChoices(random_range) ==
    IF random_range > 0 THEN 0 .. random_range ELSE {0}

\* Faulty variant: range(video_length - 1), one index short.
FrameIndicesShort(st, fs) ==
    [i \in 1 .. cfg.video_length - 1 |-> st + fs * (i - 1)]

\* lines 162-164: [start_idx + frame_stride * i for i in range(video_length)]
FrameIndices(st, fs) == [i \in 1 .. cfg.video_length |-> st + fs * (i - 1)]

\* line 166: video_reader.get_batch(frame_indices) raises on an index outside
\* the file and on a file whose frames do not decode
GetBatchOK(v, fi) ==
    /\ v.decode_ok
    /\ \A i \in DOMAIN fi : fi[i] >= 0 /\ fi[i] < v.frame_num

\* Faulty variant: the cap at fps_max is missing.
FpsClipUncapped(fps, fs) == fps \div fs

\* Faulty variant: the fps is computed from the stride the call selected,
\* not from the one the frame indices were built with.
FpsClipRequested(fps, fs) ==
    LET q == fps \div stride0
    IN  IF cfg.fps_max # None /\ q > cfg.fps_max THEN cfg.fps_max ELSE q

\* lines 217-219: fps_ori // frame_stride, capped at fps_max
FpsClip(fps, fs) ==
    LET q == fps \div fs
    IN  IF cfg.fps_max # None /\ q > cfg.fps_max THEN cfg.fps_max ELSE q

\* lines 229-230, right-hand side: stat.get(k, 0)
StatGet(stat, k) == IF k \in DOMAIN stat THEN stat[k] ELSE 0

\* lines 229-230, left-hand side: stat[k] = n
StatSet(stat, k, n) ==
    [x \in DOMAIN stat \cup {k} |-> IF x = k THEN n ELSE stat[x]]

\* Faulty variant: a key that is already counted is set back to one.
BumpOverwrites(stat, k) == StatSet(stat, k, 1)

\* lines 229-230: stat[k] = stat.get(k, 0) + 1
Bump(stat, k) == StatSet(stat, k, StatGet(stat, k) + 1)

\* The threads that call __getitem__ on one instance at the same time, and
\* a thread that has not called yet.
Threads == 1 .. MaxThreads
IdleThread == [pc |-> "idle", fps_clip |-> 0, frame_stride |-> 0, got |-> 0]

\* ------------------------------------------------------------------- Init
\* The instance right after __init__: empty histograms (lines 78-79), no call
\* in progress.  A scenario is a configuration, a table of files and the
\* number of calls the caller makes: one call over every configuration and
\* table, several calls over the configurations with a target resolution,
\* no fps cap and the largest stride, on the tables of FewFiles; one call
\* under fixed fps on the tables of OddFiles.
Scenarios ==
    { <<c, t, 1>> : c \in Configs, t \in Tables } \cup
    { <<c, t, MaxCalls>> :
        c \in { d \in Configs : d.has_resolution /\ d.fps_max = None
                                   /\ d.frame_stride = MaxStride },
        t \in FewTables } \cup
    { <<c, t, 1>> : c \in { d \in Configs : d.fixed_fps # None },
                    t \in OddTables }

Init ==
    /\ \E sc \in Scenarios :
          cfg = sc[1] /\ videos = sc[2] /\ calls_left = sc[3]
    /\ fps_stat = <<>> /\ fs_stat = <<>>
    /\ pc = "idle"
    /\ index = 0 /\ frame_stride = 0
    /\ row = 0 /\ fps_ori = 0 /\ frame_num = 0 /\ required_frame_num = 0
    /\ start_idx = 0 /\ frame_indices = <<>>
    /\ shape_ok = TRUE
    /\ data = <<>>
    /\ req = 0 /\ stride0 = 0 /\ visited = <<>> /\ last = "none"
    /\ stride_in = 0 /\ stride_chk = 0 /\ fellback = FALSE
    /\ prev = <<>>
    /\ nreturned = 0
    /\ threads = [t \in Threads |-> IdleThread]

\* ---------------------------------------------------------------- actions
\* What a finished call read and returned, kept for comparing later calls
\* with it: the frame indices are kept relative to the random start offset.
Offsets == [i \in DOMAIN frame_indices |-> frame_indices[i] - start_idx]

Summary ==
    [ req |-> req, stride0 |-> stride0, visited |-> visited, row |-> row,
      offsets |-> Offsets, sample |-> data[1] ]

\* lines 98-103: entry of __getitem__(index) and the stride selection
Call ==
    /\ pc \in {"idle", "returned", "raised"}
    /\ calls_left > 0
    /\ \E i \in 0 .. (2 * RowCount - 1), s \in StrideChoices :
          /\ index' = i
          /\ frame_stride' = s
          /\ req' = i
          /\ stride0' = s
    /\ pc' = "loop"
    /\ calls_left' = calls_left - 1
    /\ UNCHANGED <<nreturned, threads>>
    /\ data' = <<>>
    /\ row' = 0 /\ fps_ori' = 0 /\ frame_num' = 0 /\ required_frame_num' = 0
    /\ start_idx' = 0 /\ frame_indices' = <<>>
    /\ shape_ok' = TRUE
    /\ visited' = <<>> /\ last' = "none"
    /\ stride_in' = 0 /\ stride_chk' = 0 /\ fellback' = FALSE
    /\ prev' = IF pc = "returned" THEN <<Summary>> ELSE prev
    /\ UNCHANGED <<cfg, videos, fps_stat, fs_stat>>

\* An iteration of the while loop starts (line 107) with the row read at
\* lines 108-112.  The loop itself has no bound; the strides it can carry
\* from one attempt to the next are explored up to MaxCarried.
InLoop == pc = "loop" /\ frame_stride <= MaxCarried
CurRow == WrapIndex(index)
CurFile == videos[CurRow + 1]
Visit == IF Len(visited) < MaxAttempts THEN Append(visited, CurRow) ELSE visited

\* index += 1; continue (lines 126-127, 131-133, 149-150, 172-173)
NextRow(why) ==
    /\ index' = CurRow + 1
    /\ row' = CurRow
    /\ visited' = Visit
    /\ last' = why
    /\ stride_in' = frame_stride
    /\ pc' = "loop"
    /\ UNCHANGED <<cfg, videos, fps_stat, fs_stat, shape_ok, data, req,
                   stride0, calls_left, prev, nreturned, threads>>

\* lines 114-121, 130-133: VideoReader raises
OpenFails ==
    /\ InLoop
    /\ ~CurFile.opens
    /\ NextRow("open")
    /\ UNCHANGED <<frame_stride, fps_ori, frame_num, required_frame_num,
                   start_idx, frame_indices, stride_chk, fellback>>

\* lines 122-127: len(video_reader) < self.video_length
TooFewFrames ==
    /\ InLoop
    /\ CurFile.opens
    /\ CurFile.frame_num < cfg.video_length
    /\ NextRow("short")
    /\ UNCHANGED <<frame_stride, fps_ori, frame_num, required_frame_num,
                   start_idx, frame_indices, stride_chk, fellback>>

\* lines 135-146: the stride and the required span of a file that opened
Opened == InLoop /\ CurFile.opens /\ CurFile.frame_num >= cfg.video_length
Rescaled == ClampStride(RescaleStride(frame_stride, CurFile.fps))
TooShort == CurFile.frame_num < RequiredFrameNum(Rescaled)

\* lines 146-150: too short under fixed fps
DropsRow ==
    /\ Opened
    /\ TooShort
    /\ DropForFixedFps(CurFile.frame_num, RequiredFrameNum(Rescaled))
    /\ NextRow("drop")
    /\ frame_stride' = Rescaled
    /\ fps_ori' = CurFile.fps
    /\ frame_num' = CurFile.frame_num
    /\ required_frame_num' = RequiredFrameNum(Rescaled)
    /\ stride_chk' = Rescaled
    /\ fellback' = FALSE
    /\ UNCHANGED <<start_idx, frame_indices>>

\* lines 151-164: fallback stride, random clip, frame indices
Samples == Opened /\ ~(TooShort /\ DropForFixedFps(CurFile.frame_num,
                                                  RequiredFrameNum(Rescaled)))
UsedStride == IF TooShort THEN FallbackStride(CurFile.frame_num) ELSE Rescaled

SelectClip(st) ==
    /\ frame_stride' = UsedStride
    /\ fps_ori' = CurFile.fps
    /\ frame_num' = CurFile.frame_num
    /\ required_frame_num' = RequiredFrameNum(UsedStride)
    /\ start_idx' = st
    /\ frame_indices' = FrameIndices(st, UsedStride)
    /\ stride_chk' = Rescaled
    /\ fellback' = TooShort

\* lines 165-173: get_batch raises
DecodeFails ==
    /\ Samples
    /\ \E st \in StartChoices(CurFile.frame_num - RequiredFrameNum(UsedStride)) :
          /\ ~GetBatchOK(CurFile, FrameIndices(st, UsedStride))
          /\ SelectClip(st)
    /\ NextRow("decode")

\* lines 165-167: get_batch returns, break
DecodeSucceeds ==
    /\ Samples
    /\ \E st \in StartChoices(CurFile.frame_num - RequiredFrameNum(UsedStride)) :
          /\ GetBatchOK(CurFile, FrameIndices(st, UsedStride))
          /\ SelectClip(st)
    /\ index' = CurRow
    /\ row' = CurRow
    /\ visited' = Visit
    /\ last' = "ok"
    /\ stride_in' = frame_stride
    /\ pc' = "post"
    /\ UNCHANGED <<cfg, videos, fps_stat, fs_stat, shape_ok, data, req,
                   stride0, calls_left, prev, nreturned, threads>>

\* lines 192-199: the frame-count assertion, then the spatial transform, whose
\* output either has the configured resolution or not
Transform ==
    /\ pc = "post"
    /\ IF Len(frame_indices) # cfg.video_length
       THEN pc' = "raised" /\ shape_ok' = shape_ok
       ELSE /\ pc' = "check"
            /\ shape_ok' \in (IF cfg.has_resolution THEN BOOLEAN ELSE {TRUE})
    /\ UNCHANGED <<cfg, videos, fps_stat, fs_stat, index, frame_stride, data,
                   req, stride0, visited, last, calls_left, prev, nreturned,
                   threads>>
    /\ UNCHANGED locals
    /\ UNCHANGED notes

\* Faulty variant: a resolution mismatch is treated as a row-skip error.
AssertResolutionRetries ==
    /\ pc = "check"
    /\ cfg.has_resolution /\ ~shape_ok
    /\ pc' = "loop"
    /\ index' = index + 1
    /\ UNCHANGED <<cfg, videos, fps_stat, fs_stat, frame_stride,
                   shape_ok, data, req, stride0, visited, last, calls_left,
                   prev, nreturned, threads>>
    /\ UNCHANGED locals
    /\ UNCHANGED notes

\* lines 210-213: the resolution assertion fails
AssertResolution ==
    /\ pc = "check"
    /\ cfg.has_resolution /\ ~shape_ok
    /\ pc' = "raised"
    /\ UNCHANGED <<cfg, videos, fps_stat, fs_stat, index, frame_stride,
                   shape_ok, data, req, stride0, visited, last, calls_left,
                   prev, nreturned, threads>>
    /\ UNCHANGED locals
    /\ UNCHANGED notes

\* line 109: self.metadata.iloc[index], the columns __getitem__ reads; the
\* caption column is the csv's name column (lines 87-88)
Sample(r) == [ page_dir |-> <<"page_dir", r>>,
               videoid  |-> <<"videoid", r>>,
               caption  |-> <<"name", r>> ]

\* _get_video_path (lines 92-96): data_dir/videos/page_dir/videoid.mp4
VideoPath(r) ==
    <<"data_dir", "videos", Sample(r).page_dir, Sample(r).videoid, ".mp4">>

\* Faulty variant: the caption is the one of the row the caller asked for.
CaptionOfRequest(r) == Sample(WrapIndex(req)).caption

\* line 112: sample['caption']
Caption(r) == Sample(r).caption

\* lines 216-231: fps_clip, the returned dict, the histogram updates
Return ==
    /\ pc = "check"
    /\ cfg.has_resolution => shape_ok
    /\ LET fps_clip == FpsClip(fps_ori, frame_stride)
       IN  /\ data' = << [ video |-> Len(frame_indices),
                           caption |-> Caption(row),
                           path |-> VideoPath(row),
                           fps |-> fps_clip,
                           frame_stride |-> frame_stride ] >>
           /\ fps_stat' = Bump(fps_stat, fps_clip)
           /\ fs_stat' = Bump(fs_stat, frame_stride)
    /\ pc' = "returned"
    /\ nreturned' = nreturned + 1
    /\ UNCHANGED <<cfg, videos, index, frame_stride, shape_ok, req, stride0,
                   visited, last, calls_left, prev, threads>>
    /\ UNCHANGED locals
    /\ UNCHANGED notes

Next ==
    \/ Call
    \/ OpenFails
    \/ TooFewFrames
    \/ DropsRow
    \/ DecodeFails
    \/ DecodeSucceeds
    \/ Transform
    \/ AssertResolution
    \/ Return

Spec == Init /\ [][Next]_vars

\* The caller's thread keeps running: a step that can be taken is taken.
FairSpec == Spec /\ WF_vars(Next)

\* ------------------------------------------------ concurrent callers
\* Lines 98-227 read self.metadata and the constructor arguments and write
\* only the locals of the call, so a thread is followed from the point where
\* its call holds a sample; lines 229-230 then read and write the two shared
\* dicts, one access at a time.
caller == <<cfg, videos, pc, index, frame_stride, shape_ok, data, req,
            stride0, visited, last, calls_left, prev>>

\* lines 135-154: the stride of a first attempt on row r with stride s
FirstStride(r, s) ==
    LET v == videos[r + 1]
        rs == ClampStride(RescaleStride(s, v.fps))
    IN  IF v.frame_num < RequiredFrameNum(rs)
        THEN FallbackStride(v.frame_num) ELSE rs

\* lines 107-173: the first attempt on row r with stride s reaches break
FirstAttemptReturns(r, s) ==
    LET v == videos[r + 1]
        rq == RequiredFrameNum(ClampStride(RescaleStride(s, v.fps)))
        fs == FirstStride(r, s)
    IN  /\ v.opens
        /\ v.frame_num >= cfg.video_length
        /\ ~(v.frame_num < rq /\ DropForFixedFps(v.frame_num, rq))
        /\ \E st \in StartChoices(v.frame_num - RequiredFrameNum(fs)) :
              GetBatchOK(v, FrameIndices(st, fs))

ThreadScenarios ==
    { <<c, t>> : c \in { d \in Configs : ~d.has_resolution
                                         /\ d.fps_max = None },
                 t \in FewTables }

ThreadInit ==
    /\ \E sc \in ThreadScenarios : cfg = sc[1] /\ videos = sc[2]
    /\ calls_left = 0
    /\ fps_stat = <<>> /\ fs_stat = <<>>
    /\ pc = "idle"
    /\ index = 0 /\ frame_stride = 0
    /\ row = 0 /\ fps_ori = 0 /\ frame_num = 0 /\ required_frame_num = 0
    /\ start_idx = 0 /\ frame_indices = <<>>
    /\ shape_ok = TRUE
    /\ data = <<>>
    /\ req = 0 /\ stride0 = 0 /\ visited = <<>> /\ last = "none"
    /\ stride_in = 0 /\ stride_chk = 0 /\ fellback = FALSE
    /\ prev = <<>>
    /\ nreturned = 0
    /\ threads = [t \in Threads |-> IdleThread]

\* lines 98-227 of one thread's call: fps_clip and frame_stride of its sample
GetSample(t) ==
    /\ threads[t].pc = "idle"
    /\ \E r \in 0 .. RowCount - 1, s \in StrideChoices :
          /\ FirstAttemptReturns(r, s)
          /\ threads' = [threads EXCEPT ![t] =
                 [ pc |-> "fps_get",
                   fps_clip |-> FpsClip(videos[r + 1].fps, FirstStride(r, s)),
                   frame_stride |-> FirstStride(r, s),
                   got |-> 0 ]]
    /\ UNCHANGED <<fps_stat, fs_stat, nreturned>>
    /\ UNCHANGED caller /\ UNCHANGED locals /\ UNCHANGED notes

\* line 229, right-hand side: self.fps_stat.get(fps_clip, 0)
FpsStatGet(t) ==
    /\ threads[t].pc = "fps_get"
    /\ threads' = [threads EXCEPT
                     ![t].got = StatGet(fps_stat, threads[t].fps_clip),
                     ![t].pc = "fps_set"]
    /\ UNCHANGED <<fps_stat, fs_stat, nreturned>>
    /\ UNCHANGED caller /\ UNCHANGED locals /\ UNCHANGED notes

\* line 229, the store: self.fps_stat[fps_clip] = ... + 1
FpsStatSet(t) ==
    /\ threads[t].pc = "fps_set"
    /\ fps_stat' = StatSet(fps_stat, threads[t].fps_clip, threads[t].got + 1)
    /\ threads' = [threads EXCEPT ![t].pc = "fs_get"]
    /\ UNCHANGED <<fs_stat, nreturned>>
    /\ UNCHANGED caller /\ UNCHANGED locals /\ UNCHANGED notes

\* line 230, right-hand side: self.fs_stat.get(frame_stride, 0)
FsStatGet(t) ==
    /\ threads[t].pc = "fs_get"
    /\ threads' = [threads EXCEPT
                     ![t].got = StatGet(fs_stat, threads[t].frame_stride),
                     ![t].pc = "fs_set"]
    /\ UNCHANGED <<fps_stat, fs_stat, nreturned>>
    /\ UNCHANGED caller /\ UNCHANGED locals /\ UNCHANGED notes

\* line 230, the store, and line 231: return data
FsStatSet(t) ==
    /\ threads[t].pc = "fs_set"
    /\ fs_stat' = StatSet(fs_stat, threads[t].frame_stride,
                          threads[t].got + 1)
    /\ threads' = [threads EXCEPT ![t].pc = "done"]
    /\ nreturned' = nreturned + 1
    /\ UNCHANGED fps_stat
    /\ UNCHANGED caller /\ UNCHANGED locals /\ UNCHANGED notes

ThreadNext ==
    \E t \in Threads :
        \/ GetSample(t)
        \/ FpsStatGet(t)
        \/ FpsStatSet(t)
        \/ FsStatGet(t)
        \/ FsStatSet(t)

ThreadSpec == ThreadInit /\ [][ThreadNext]_vars

\* ------------------------------------------------------------ properties
Attempted == last \in {"open", "short", "drop", "decode", "ok"}
Skipped == pc = "loop" /\ last \in {"open", "short", "drop", "decode"}
Sampled == last \in {"decode", "ok"}
Decoded == pc \in {"post", "check", "returned"}
Returned == pc = "returned"

\* C1: the decode request that ends the retry loop holds exactly video_length
\* frame indices, whatever failed attempts came before it, and the returned
\* sample is built from that many frames.
C1_ExactlyVideoLengthIndices ==
    /\ Decoded => Len(frame_indices) = cfg.video_length
    /\ Returned => data[1].video = cfg.video_length

C1_Witness ==
    /\ Returned
    /\ Len(visited) >= 2
    /\ Len(frame_indices) = cfg.video_length

\* C2: the stride of the required-span check, the stride the frame indices
\* are built with and the frame_stride of a returned sample are all >= 1, in
\* every attempt of a call.
C2_StrideAtLeastOne ==
    /\ last \in {"drop", "decode", "ok"} => stride_chk >= 1 /\ frame_stride >= 1
    /\ Sampled =>
          \A i \in 1 .. Len(frame_indices) - 1 :
              frame_indices[i + 1] - frame_indices[i] >= 1
    /\ Returned => data[1].frame_stride >= 1

\* a sample returned after an abandoned attempt, from a file whose fixed-fps
\* rescaling computes a stride below 1
C2_Witness ==
    /\ Returned
    /\ Len(visited) >= 2
    /\ cfg.fixed_fps # None
    /\ RescaleStride(stride_in, fps_ori) < 1
    /\ data[1].frame_stride = 1

\* A row is usable when a call that starts on it with stride s succeeds at
\* its first attempt: the file opens, has video_length frames, is not too
\* short under fixed fps, and its frames decode.
Usable(r, s) ==
    LET v == videos[r + 1]
        rq == RequiredFrameNum(Max((IF cfg.fixed_fps # None
                                    THEN (s * v.fps) \div cfg.fixed_fps
                                    ELSE s), 1))
    IN  /\ v.opens
        /\ v.frame_num >= cfg.video_length
        /\ ~(cfg.fixed_fps # None /\ v.frame_num < rq /\ 2 * v.frame_num < rq)
        /\ v.decode_ok

CyclicRow(k, j) == ((k % RowCount) + j) % RowCount

FirstUsable(k, s) ==
    LET J == { j \in 0 .. RowCount - 1 : Usable(CyclicRow(k, j), s) }
    IN  CyclicRow(k, CHOOSE j \in J : \A h \in J : j <= h)

\* C3: a call skips only unusable rows, one row at a time, and returns the
\* sample of the first usable row in cyclic order from the requested index.
C3_FailOver ==
    /\ Skipped => ~Usable(row, stride0) /\ index = row + 1
    /\ Returned =>
          /\ \E r \in 0 .. RowCount - 1 : Usable(r, stride0)
          /\ row = FirstUsable(req, stride0)

\* A row no stride makes usable.
Hopeless(r) ==
    LET v == videos[r + 1]
    IN  ~v.opens \/ v.frame_num < cfg.video_length \/ ~v.decode_ok

\* C4: the attempts of one call are bounded: over a table whose rows are all
\* unusable a call that has made MaxAttempts attempts is no longer retrying.
C4_Exhaustion ==
    (/\ \A r \in 0 .. RowCount - 1 : Hopeless(r)
     /\ Len(visited) >= MaxAttempts)
        => pc # "loop"

\* C5: the rows a call reads are those from req mod row_count on, in cyclic
\* order, so they depend on req only through req mod row_count; and a call
\* whose index differs by row_count from that of the call before it, with
\* the same stride drawn, reads the same rows and returns the same path,
\* caption, frame_stride and fps, and the same frame indices relative to the
\* start offset.
C5_Wraparound ==
    /\ \A j \in 1 .. Len(visited) : visited[j] = CyclicRow(req, j - 1)
    /\ (/\ Returned
        /\ prev # <<>>
        /\ prev[1].req # req
        /\ prev[1].req % RowCount = req % RowCount
        /\ prev[1].stride0 = stride0)
          => /\ prev[1].visited = visited
             /\ prev[1].row = row
             /\ prev[1].sample = data[1]
             /\ prev[1].offsets = Offsets

C5_Witness ==
    /\ Returned
    /\ prev # <<>>
    /\ req = prev[1].req + RowCount
    /\ prev[1].stride0 = stride0
    /\ Len(visited) >= 2
    /\ prev[1].sample = data[1]

\* C6: with fixed-fps mode off, an attempt that finds fewer frames than
\* required replaces the stride by frame_num // video_length, and the span
\* recomputed from it fits in the file.
C6_FallbackStride ==
    (Sampled /\ fellback /\ cfg.fixed_fps = None)
        => /\ frame_num >= cfg.video_length
           /\ frame_num < stride_chk * (cfg.video_length - 1) + 1
           /\ frame_stride = frame_num \div cfg.video_length
           /\ required_frame_num = frame_stride * (cfg.video_length - 1) + 1
           /\ required_frame_num <= frame_num

C6_Witness ==
    /\ Returned
    /\ fellback
    /\ cfg.fixed_fps = None
    /\ frame_stride < stride_chk
    /\ data[1].frame_stride = frame_num \div cfg.video_length

\* C7: with an fps ceiling configured, the fps of a returned sample and every
\* key of the fps histogram are <= fps_max.
C7_FpsCap ==
    cfg.fps_max # None
        => /\ Returned => data[1].fps <= cfg.fps_max
           /\ \A k \in DOMAIN fps_stat : k <= cfg.fps_max

\* a returned sample whose uncapped fps exceeds the ceiling
C7_Witness ==
    /\ Returned
    /\ cfg.fps_max # None
    /\ fps_ori \div frame_stride > cfg.fps_max
    /\ data[1].fps = cfg.fps_max
    /\ cfg.fps_max \in DOMAIN fps_stat

\* C8: with random_fs off, a call with the same index as the returned call
\* before it, on the same files, returns the same row and frame_stride and
\* the same frame indices relative to the start offset.
C8_Determinism ==
    (/\ Returned
     /\ ~cfg.random_fs
     /\ prev # <<>>
     /\ prev[1].req = req)
        => /\ prev[1].row = row
           /\ prev[1].sample.frame_stride = data[1].frame_stride
           /\ prev[1].offsets = Offsets

\* the second of two such calls, each returning after an abandoned attempt
C8_Witness ==
    /\ Returned
    /\ ~cfg.random_fs
    /\ prev # <<>>
    /\ prev[1].req = req
    /\ Len(visited) >= 2
    /\ prev[1].sample.frame_stride = data[1].frame_stride

\* C9: a resolution mismatch ends the call with an error: the step taken
\* from it raises, moves to no other row, returns no sample and leaves both
\* histograms as they are; and a call that raised is not resumed.
C9_MismatchIsFatal ==
    [][ /\ (pc = "check" /\ cfg.has_resolution /\ ~shape_ok)
            => /\ pc' = "raised"
               /\ index' = index
               /\ data' = <<>>
               /\ fps_stat' = fps_stat
               /\ fs_stat' = fs_stat
        /\ pc = "raised" => (pc' = "raised" \/ calls_left' < calls_left)
      ]_vars

\* a call that raised on a mismatch after an earlier call filled the
\* histograms
C9_Witness ==
    /\ pc = "raised"
    /\ cfg.has_resolution /\ ~shape_ok
    /\ data = <<>>
    /\ DOMAIN fps_stat # {}
    /\ DOMAIN fs_stat # {}

\* C10: every attempt starts from the configured stride, or with random_fs
\* on from a stride in [frame_stride_min, frame_stride].
C10_FreshStridePerAttempt ==
    pc = "loop" =>
        IF cfg.random_fs
        THEN frame_stride \in cfg.frame_stride_min .. cfg.frame_stride
        ELSE frame_stride = cfg.frame_stride

\* An attempt that read the file's fps and went through the span check.
Checked == last \in {"drop", "decode", "ok"}

\* C11 as claimed: under fixed fps the stride of an attempt is
\* round(stride * source_fps / target_fps), clamped to a minimum of 1.
C11_RoundedRescale ==
    (Checked /\ cfg.fixed_fps # None)
        => stride_chk = Max(RoundHalfEven(stride_in * fps_ori, cfg.fixed_fps), 1)

\* C11 as amended: under fixed fps the stride of an attempt is
\* stride * source_fps / target_fps truncated to an integer, clamped to a
\* minimum of 1, where stride is the one the attempt starts with; without
\* fixed fps the stride is only clamped.
C11_TruncatedRescale ==
    Checked =>
        IF cfg.fixed_fps # None
        THEN stride_chk = Max((stride_in * fps_ori) \div cfg.fixed_fps, 1)
        ELSE stride_chk = Max(stride_in, 1)

\* stride 1 on a file whose fps is 1.5 times the target: the stride stays 1
C11_Witness ==
    /\ last = "ok"
    /\ cfg.fixed_fps # None
    /\ stride_in = 1
    /\ 2 * fps_ori = 3 * cfg.fixed_fps
    /\ stride_chk = 1
    /\ frame_stride = 1

\* A row on which a call that starts there succeeds at its first attempt,
\* whichever stride it selects.
DirectlyUsable(r) == \A s \in StrideChoices : Usable(r, s)

\* C16: over a table with a directly usable row every call leaves the retry
\* loop with a sample (or with the error of the post-processing), unless it
\* carries a stride beyond those explored.
C16_EventuallyReturns ==
    (pc = "loop" /\ \E r \in 0 .. RowCount - 1 : DirectlyUsable(r))
        ~> (pc \in {"returned", "raised"} \/ frame_stride > MaxCarried)

\* C12: an attempt that finds fewer frames than required abandons the row
\* exactly when fixed fps is configured and frame_num < 0.5 * required;
\* otherwise it keeps the row and samples it with frame_num // video_length.
\* An attempt that finds enough frames neither drops nor falls back.
C12_RequiredSpanCheck ==
    Checked =>
        LET required == stride_chk * (cfg.video_length - 1) + 1
        IN  IF frame_num < required
            THEN /\ last = "drop"
                    <=> (cfg.fixed_fps # None /\ 2 * frame_num < required)
                 /\ last # "drop"
                    => /\ fellback
                       /\ frame_stride = frame_num \div cfg.video_length
                       /\ frame_indices[2] - frame_indices[1] = frame_stride
            ELSE last # "drop" /\ ~fellback /\ frame_stride = stride_chk

\* a short file kept under fixed fps, with at least half the required frames
C12_Witness ==
    /\ Returned
    /\ cfg.fixed_fps # None
    /\ frame_num < stride_chk * (cfg.video_length - 1) + 1
    /\ 2 * frame_num >= stride_chk * (cfg.video_length - 1) + 1
    /\ fellback
    /\ data[1].frame_stride = frame_num \div cfg.video_length

\* C13: in every attempt that reaches get_batch the slack is >= 0, the start
\* offset lies in [0, slack], every index start + stride * i lies inside the
\* file, and the gap between consecutive indices is the frame_stride that a
\* returned sample reports.
C13_IndicesInsideFile ==
    /\ Sampled =>
          /\ frame_num - required_frame_num >= 0
          /\ start_idx \in 0 .. (frame_num - required_frame_num)
          /\ \A i \in DOMAIN frame_indices :
                /\ frame_indices[i] = start_idx + frame_stride * (i - 1)
                /\ frame_indices[i] \in 0 .. (frame_num - 1)
    /\ Returned =>
          \A i \in 1 .. Len(frame_indices) - 1 :
              frame_indices[i + 1] - frame_indices[i] = data[1].frame_stride

\* a returned clip that starts at the last offset and ends on the last frame
C13_Witness ==
    /\ Returned
    /\ start_idx > 0
    /\ start_idx = frame_num - required_frame_num
    /\ frame_indices[Len(frame_indices)] = frame_num - 1

\* C14: the fps of a returned sample is floor(source fps / stride), capped at
\* fps_max, for the fps of the file of the row that was decoded and the
\* stride its frame indices were built with.
C14_ReportedFps ==
    Returned =>
        LET q == videos[row + 1].fps \div (frame_indices[2] - frame_indices[1])
        IN  data[1].fps = IF cfg.fps_max # None /\ q > cfg.fps_max
                          THEN cfg.fps_max ELSE q

\* a sample returned with the fallback stride after an abandoned attempt,
\* whose fps differs from the one the selected stride would give
C14_Witness ==
    /\ Returned
    /\ Len(visited) >= 2
    /\ fellback
    /\ cfg.fps_max = None
    /\ data[1].fps = fps_ori \div data[1].frame_stride
    /\ data[1].fps # fps_ori \div stride0

\* C19: whenever the fallback is taken, frame_num // video_length is strictly
\* smaller than the stride that failed the required-span check; hence with
\* fixed fps off a returned sample's frame_stride never exceeds the stride
\* the call selected, which never exceeds the configured one.
C19_FallbackIsSmaller ==
    /\ (Checked /\ fellback) =>
          /\ frame_stride = frame_num \div cfg.video_length
          /\ frame_stride < stride_chk
    /\ (Returned /\ cfg.fixed_fps = None) =>
          /\ data[1].frame_stride <= stride0
          /\ stride0 <= cfg.frame_stride

\* a sample drawn with fixed fps off, returned with a smaller stride than
\* the one drawn, after an abandoned attempt
C19_Witness ==
    /\ Returned
    /\ cfg.fixed_fps = None
    /\ cfg.random_fs
    /\ fellback
    /\ Len(visited) >= 2
    /\ data[1].frame_stride < stride0

\* C18: the caption, the path, the source fps and the decoded frames of a
\* returned sample all belong to one metadata row, the row of the last
\* attempt (the one index points at when the loop is left), and the path is
\* data_dir/videos/page_dir/videoid.mp4 of that row.
C18_OneRowPerSample ==
    Returned =>
        LET r == WrapIndex(index)
            f == videos[r + 1]
        IN  /\ data[1].caption = <<"name", r>>
            /\ data[1].path = <<"data_dir", "videos", <<"page_dir", r>>,
                                <<"videoid", r>>, ".mp4">>
            /\ f.opens /\ f.decode_ok
            /\ fps_ori = f.fps
            /\ frame_num = f.frame_num
            /\ data[1].video = cfg.video_length
            /\ \A i \in DOMAIN frame_indices : frame_indices[i] < f.frame_num
            /\ Len(visited) < MaxAttempts => visited[Len(visited)] = r

\* a sample of another row than the requested one, whose file differs from
\* the requested row's and from the abandoned one's
C18_Witness ==
    /\ Returned
    /\ Len(visited) >= 2
    /\ WrapIndex(index) # WrapIndex(req)
    /\ data[1].caption # <<"name", WrapIndex(req)>>
    /\ videos[WrapIndex(index) + 1] # videos[WrapIndex(req) + 1]

\* The sum of the counts of a histogram.
RECURSIVE SumOver(_, _)
SumOver(stat, keys) ==
    IF keys = {} THEN 0
    ELSE LET k == CHOOSE x \in keys : TRUE
         IN  stat[k] + SumOver(stat, keys \ {k})

Total(stat) == SumOver(stat, DOMAIN stat)

\* new is old with the entry of key k, and no other, larger by one
BumpedAt(old, new, k) ==
    /\ DOMAIN new = DOMAIN old \cup {k}
    /\ new[k] = (IF k \in DOMAIN old THEN old[k] ELSE 0) + 1
    /\ \A x \in DOMAIN old \ {k} : new[x] = old[x]

\* C15: a call that returns a sample increments the fps-histogram entry of
\* the returned fps and the stride-histogram entry of the returned
\* frame_stride by one and changes no other entry; every other step (an
\* abandoned row, a raised assertion, the next call's entry) leaves both
\* histograms alone; so the counts of each histogram always sum to the
\* number of samples returned.  The metadata table, its row count and the
\* configured stride never change.
C15_HistogramAccounting ==
    /\ [](Total(fps_stat) = nreturned /\ Total(fs_stat) = nreturned)
    /\ [][ /\ videos' = videos
           /\ Len(videos') = Len(videos)
           /\ cfg'.frame_stride = cfg.frame_stride
           /\ IF pc # "returned" /\ pc' = "returned"
              THEN /\ BumpedAt(fps_stat, fps_stat', data'[1].fps)
                   /\ BumpedAt(fs_stat, fs_stat', data'[1].frame_stride)
                   /\ nreturned' = nreturned + 1
              ELSE /\ fps_stat' = fps_stat
                   /\ fs_stat' = fs_stat
                   /\ nreturned' = nreturned
         ]_vars

\* two calls have returned the same fps and the same stride, the second one
\* after abandoning a row
C15_Witness ==
    /\ Returned
    /\ nreturned = 2
    /\ Len(visited) >= 2
    /\ fps_stat[data[1].fps] = 2
    /\ fs_stat[data[1].frame_stride] = 2

\* C17: when several threads call __getitem__ on one instance, once all of
\* them have returned the counts of the fps histogram and of the stride
\* histogram each sum to the number of samples returned.
C17_NoLostUpdates ==
    (\A t \in Threads : threads[t].pc = "done")
        => /\ Total(fps_stat) = nreturned
           /\ Total(fs_stat) = nreturned

=============================================================================
